---------------------------- MODULE Spec2Model ----------------------------
(***************************************************************************)
(* zone_info: effective CPU count of an illumos zone, read from the kernel *)
(* statistics chain (libkstat) through KstatWrapper (src/src/kstat.rs) and *)
(* the policy function zone_cpus (src/src/lib.rs).                         *)
(*                                                                         *)
(* Three specifications over the same variables:                           *)
(*   Spec          one call of zone_cpus(), one action per wrapper call    *)
(*   CursorSpec    any sequence of lookup/step/module/name on one wrapper  *)
(*   AccessorSpec  data_u32 / data_ulong applied to any cursor state       *)
(*                                                                         *)
(* Encodings.  Option<T> is a sequence of length <= 1 (None == <<>>).      *)
(* A kstat pointer is the 1-based position of the record in the chain.     *)
(* A u64 is the pair [lo, hi] of its 32-bit halves; the 8 significant      *)
(* bytes of the KstatValue union are such a pair (little-endian LP64, the  *)
(* illumos targets), so the ui32 member is lo and the ul member is both.   *)
(***************************************************************************)
EXTENDS Integers, Sequences, FiniteSets, TLC

VARIABLES
    kc_chain,   \* the kstat chain the kernel hands out: Seq of record headers
    k,          \* the live KstatWrapper [kc, ks, stepping]; kc = 0: none alive
    pc,         \* position of zone_cpus() / zone_cpu_cap() / ncpus()
    name,       \* zone_cpu_cap's local `name` (Option of text)
    cap,        \* value returned by zone_cpu_cap(), once it has returned
    ncpusRet,   \* value returned by ncpus(), once it has returned
    result,     \* value returned by zone_cpus(), once it has returned
    calls,      \* every call of an external primitive so far, in order
    last,       \* the latest wrapper call and its outcome (Spec: the latest accessor
                \* call, with the cursor it was made on)
    stepRet,    \* what the most recent step() since open/lookup returned
    steps       \* Spec: how many step() calls the current walk has made

vars == <<kc_chain, k, pc, name, cap, ncpusRet, result, calls, last, stepRet, steps>>

----------------------------------------------------------------------------
(* Bounds of the model *)

MaxChainLen == 3
MaxZoneId == 1

(* a walk is cut off after this many step() calls *)
MaxSteps == MaxChainLen + 2

----------------------------------------------------------------------------
(* Constants of the program *)

MODULE_CAPS == "caps"
MODULE_UNIX == "unix"
NAME_SYSTEM_MISC == "system_misc"
STAT_VALUE == "value"
STAT_NCPUS == "ncpus"
KSTAT_TYPE_NAMED == 1

None == <<>>
Some(x) == <<x>>

(* format!("cpucaps_zone_{}", zoneid) *)
CapsName(zoneid) == "cpucaps_zone_" \o ToString(zoneid)

----------------------------------------------------------------------------
(* The kernel side: chain headers, refreshed record contents, zone ids *)

KsModules == {MODULE_CAPS, MODULE_UNIX}
KsNames == {NAME_SYSTEM_MISC, "cpucaps_zone_0"}

Kstat == [ks_module : KsModules, ks_name : KsNames]

Chains == UNION {[1..n -> Kstat] : n \in 0..MaxChainLen}

ZoneIds == 0..MaxZoneId

U64(n) == [lo |-> n, hi |-> 0]

KstatValue == {U64(0), U64(8), U64(99), U64(100), U64(350), U64(450), [lo |-> 8, hi |-> 1]}

KstatNamed == [name : {STAT_VALUE, STAT_NCPUS}, data_type : {"ui32", "ul"}, value : KstatValue]

Decoy == [name |-> "nproc", data_type |-> "ui32", value |-> U64(8)]

Payloads == {<<>>} \cup {<<e>> : e \in KstatNamed} \cup {<<Decoy, e>> : e \in KstatNamed}

(* What one kstat_read delivers: -1, or the record refreshed in place. *)
ReadOutcomes ==
    {[ret |-> -1, ks_type |-> KSTAT_TYPE_NAMED, ks_ndata |-> 0, ks_data |-> <<>>]}
    \cup {[ret |-> 0, ks_type |-> t, ks_ndata |-> Len(d), ks_data |-> d] :
            t \in {KSTAT_TYPE_NAMED, 4}, d \in Payloads}

(* One call of an external primitive: the handle it is made on (0: none), the
   record it targets (0: none), what it returned, and for a kstat_data_lookup
   that found an entry, the entry. *)
Call(fn, kc, ks, ret, nv) == [fn |-> fn, kc |-> kc, ks |-> ks, ret |-> ret, nv |-> nv]

----------------------------------------------------------------------------
(* libkstat primitives *)

(* kstat_lookup(kc, module, -1, name), the libkstat routine the wrapper    *)
(* calls (kstat_lookup(3KSTAT)): it walks kc_chain from its head and       *)
(* returns the first record that satisfies every filter given (a null      *)
(* filter and instance -1 match anything), or null when there is none.     *)
kstat_lookup(chain, module, nm) ==
    LET hit == {i \in 1..Len(chain) :
                  /\ (module = None \/ chain[i].ks_module = module[1])
                  /\ (nm = None \/ chain[i].ks_name = nm[1])}
    IN IF hit = {} THEN None
       ELSE Some(CHOOSE i \in hit : \A j \in hit : i <= j)

(* ks.ks_next *)
ks_next(chain, i) == IF i < Len(chain) THEN Some(i + 1) ELSE None

(* kstat_data_lookup(ksp, name): the first entry of a named (or timer)     *)
(* record's payload that carries the name, or null.                        *)
kstat_data_lookup(rec, statistic) ==
    LET hit == {i \in 1..Len(rec.ks_data) : rec.ks_data[i].name = statistic}
    IN IF rec.ks_type \notin {KSTAT_TYPE_NAMED, 4} \/ hit = {} THEN None
       ELSE Some(rec.ks_data[CHOOSE i \in hit : \A j \in hit : i <= j])

----------------------------------------------------------------------------
(* KstatWrapper *)

NoWrapper == [kc |-> 0, ks |-> None, stepping |-> FALSE]

(* KstatWrapper::open, the Ok branch; h is the non-null kstat_ctl *)
open(h) == [kc |-> h, ks |-> None, stepping |-> FALSE]

(* lookup() that leaves the stepping flag as it was *)
lookup_KeepsStepping(self, chain, module, nm) ==
    [self EXCEPT !.ks = kstat_lookup(chain, module, nm)]

lookup(self, chain, module, nm) ==
    [self EXCEPT !.ks = kstat_lookup(chain, module, nm), !.stepping = FALSE]

(* step() that trusts the first call after a lookup without looking at ks *)
step_FirstTrue(self, chain) ==
    IF ~self.stepping
    THEN [self |-> [self EXCEPT !.stepping = TRUE], ret |-> TRUE]
    ELSE LET nx == IF self.ks = None THEN None ELSE ks_next(chain, self.ks[1])
         IN IF nx = None
            THEN [self |-> [self EXCEPT !.ks = None, !.stepping = FALSE], ret |-> FALSE]
            ELSE [self |-> [self EXCEPT !.ks = nx], ret |-> TRUE]

(* step() that advances on every call, the first after a lookup included *)
step_AlwaysAdvance(self, chain) ==
    LET nx == IF self.ks = None THEN None ELSE ks_next(chain, self.ks[1])
    IN IF nx = None
       THEN [self |-> [self EXCEPT !.ks = None, !.stepping = FALSE], ret |-> FALSE]
       ELSE [self |-> [self EXCEPT !.ks = nx, !.stepping = TRUE], ret |-> TRUE]

(* step() that stays on the last record instead of running off the chain *)
step_StaysAtEnd(self, chain) ==
    LET s1 == IF ~self.stepping
              THEN [self EXCEPT !.stepping = TRUE]
              ELSE [self EXCEPT !.ks = IF self.ks = None THEN None
                                       ELSE IF ks_next(chain, self.ks[1]) = None
                                            THEN self.ks
                                            ELSE ks_next(chain, self.ks[1])]
    IN IF s1.ks = None
       THEN [self |-> [s1 EXCEPT !.stepping = FALSE], ret |-> FALSE]
       ELSE [self |-> s1, ret |-> TRUE]

(* step() that leaves the stepping flag set when the walk is exhausted *)
step_NoReset(self, chain) ==
    LET s1 == IF ~self.stepping
              THEN [self EXCEPT !.stepping = TRUE]
              ELSE [self EXCEPT !.ks = IF self.ks = None THEN None
                                       ELSE ks_next(chain, self.ks[1])]
    IN IF s1.ks = None
       THEN [self |-> s1, ret |-> FALSE]
       ELSE [self |-> s1, ret |-> TRUE]

step(self, chain) ==
    LET s1 == IF ~self.stepping
              THEN [self EXCEPT !.stepping = TRUE]
              ELSE [self EXCEPT !.ks = IF self.ks = None THEN None
                                       ELSE ks_next(chain, self.ks[1])]
    IN IF s1.ks = None
       THEN [self |-> [s1 EXCEPT !.stepping = FALSE], ret |-> FALSE]
       ELSE [self |-> s1, ret |-> TRUE]

(* module() / name(): the text, or the panic of expect() *)
module(self, chain) ==
    IF self.ks = None THEN [panic |-> TRUE, text |-> "step() must return true first"]
    ELSE [panic |-> FALSE, text |-> chain[self.ks[1]].ks_module]

name_(self, chain) ==
    IF self.ks = None THEN [panic |-> TRUE, text |-> "step() must return true first"]
    ELSE [panic |-> FALSE, text |-> chain[self.ks[1]].ks_name]

(* data_value without the ks_type / ks_ndata test *)
data_value_NoTypeCheck(self, rd, statistic) ==
    IF self.ks = None THEN [ret |-> None, calls |-> <<>>]
    ELSE LET rc == [fn |-> "kstat_read", kc |-> self.kc, ks |-> self.ks[1],
                    ret |-> rd.ret, nv |-> None]
         IN IF rd.ret = -1 THEN [ret |-> None, calls |-> <<rc>>]
            ELSE LET kn == kstat_data_lookup(rd, statistic)
                 IN [ret |-> kn,
                     calls |-> <<rc, [fn |-> "kstat_data_lookup", kc |-> self.kc,
                                      ks |-> self.ks[1],
                                      ret |-> IF kn = None THEN 0 ELSE 1, nv |-> kn]>>]

(* data_value: rd is what the kernel answers to the kstat_read, if issued. *)
(* ret is the Option<NonNull<KstatNamed>>, calls the primitives it called. *)
data_value(self, rd, statistic) ==
    IF self.ks = None THEN [ret |-> None, calls |-> <<>>]
    ELSE LET rc == Call("kstat_read", self.kc, self.ks[1], rd.ret, None)
         IN IF rd.ret = -1 THEN [ret |-> None, calls |-> <<rc>>]
            ELSE IF rd.ks_type # KSTAT_TYPE_NAMED \/ rd.ks_ndata < 1
                 THEN [ret |-> None, calls |-> <<rc>>]
                 ELSE LET kn == kstat_data_lookup(rd, statistic)
                      IN [ret |-> kn,
                          calls |-> <<rc, Call("kstat_data_lookup", self.kc, self.ks[1],
                                               IF kn = None THEN 0 ELSE 1, kn)>>]

(* data_u32 that answers only for an entry tagged as a 32-bit unsigned *)
data_u32_TagChecked(self, rd, statistic) ==
    LET r == data_value(self, rd, statistic)
    IN [ret |-> IF r.ret = None \/ r.ret[1].data_type # "ui32" THEN None
                ELSE Some(U64(r.ret[1].value.lo)),
        calls |-> r.calls]

(* kn.value.ui32 as u64 *)
data_u32(self, rd, statistic) ==
    LET r == data_value(self, rd, statistic)
    IN [ret |-> IF r.ret = None THEN None ELSE Some(U64(r.ret[1].value.lo)),
        calls |-> r.calls]

(* data_ulong reading the ui32 member *)
data_ulong_Ui32(self, rd, statistic) ==
    LET r == data_value(self, rd, statistic)
    IN [ret |-> IF r.ret = None THEN None
                ELSE Some([lo |-> r.ret[1].value.lo, hi |-> 0]),
        calls |-> r.calls]

(* kn.value.ul as u64 *)
data_ulong(self, rd, statistic) ==
    LET r == data_value(self, rd, statistic)
    IN [ret |-> IF r.ret = None THEN None ELSE Some(r.ret[1].value),
        calls |-> r.calls]

(* a wrapper that is forgotten instead of dropped *)
drop_Leak(self) == <<>>

(* Drop for KstatWrapper *)
drop(self) == <<Call("kstat_close", self.kc, 0, 0, None)>>

----------------------------------------------------------------------------
(* Results and errors *)

Ok(v) == [ok |-> TRUE, val |-> Some(v), err |-> None]
Err(e) == [ok |-> FALSE, val |-> None, err |-> Some(e)]

KstatError_Open == <<"Open">>
KstatError_Zoneid == <<"Zoneid">>
KstatError_Error == <<"Error", "cpu count kstat not found">>

(* ZoneInfoError::from(KstatError), the #[from] of the Kstat variant *)
From(e) == <<"Kstat">> \o e

(* cap / 100 rounded to the nearest integer *)
Div100_Round(u) == u.hi * 42949672 + ((u.hi * 96 + u.lo + 50) \div 100)

(* cap / 100 clamped to at least one CPU *)
Div100_AtLeastOne(u) ==
    LET q == u.hi * 42949672 + ((u.hi * 96 + u.lo) \div 100)
    IN IF q < 1 THEN 1 ELSE q

(* (cap / 100) as usize, on the halves: 2^32 = 42949672 * 100 + 96 *)
Div100(u) == u.hi * 42949672 + ((u.hi * 96 + u.lo) \div 100)

(* ncpus as usize: a u64 widened from a u32 has hi = 0 *)
AsUsize(u) == u.hi * 0 + u.lo

NextHandle == Cardinality({i \in 1..Len(calls) : calls[i].fn = "kstat_open" /\ calls[i].ret # 0}) + 1

----------------------------------------------------------------------------
(* Init: nothing has run; the kernel holds some chain. *)

Init ==
    /\ kc_chain \in Chains
    /\ k = NoWrapper
    /\ pc = "start"
    /\ name = None
    /\ cap = None
    /\ ncpusRet = None
    /\ result = None
    /\ calls = <<>>
    /\ last = [op |-> "none"]
    /\ stepRet = "none"
    /\ steps = 0

----------------------------------------------------------------------------
(* zone_cpu_cap(), entered from zone_cpus() *)

(* zone_cpu_cap() without the `?` on open(): goes on with a null handle *)
ZccOpen_IgnoresFailure ==
    /\ pc = "start"
    /\ \E h \in {0, NextHandle} :
         /\ calls' = Append(calls, [fn |-> "kstat_open", kc |-> 0, ks |-> 0,
                                    ret |-> h, nv |-> None])
         /\ k' = [kc |-> h, ks |-> None, stepping |-> FALSE]
         /\ pc' = "zcc_zoneid"
         /\ cap' = cap
    /\ UNCHANGED <<kc_chain, name, ncpusRet, result, last, stepRet, steps>>

ZccOpen ==
    /\ pc = "start"
    /\ \E h \in {0, NextHandle} :
         /\ calls' = Append(calls, Call("kstat_open", 0, 0, h, None))
         /\ IF h = 0
            THEN /\ cap' = Some(Err(KstatError_Open))
                 /\ pc' = "zcc_ret"
                 /\ k' = k
            ELSE /\ k' = open(h)
                 /\ pc' = "zcc_zoneid"
                 /\ cap' = cap
    /\ UNCHANGED <<kc_chain, name, ncpusRet, result, last, stepRet, steps>>

(* zone_cpu_cap() that asks for the zone id again to build the name *)
ZccGetzoneid_Twice ==
    /\ pc = "zcc_zoneid"
    /\ \E z \in ZoneIds \cup {-1} :
         LET g == [fn |-> "getzoneid", kc |-> 0, ks |-> 0, ret |-> z, nv |-> None]
         IN IF z = -1
            THEN /\ calls' = calls \o <<g>> \o drop(k)
                 /\ k' = NoWrapper
                 /\ cap' = Some(Err(KstatError_Zoneid))
                 /\ pc' = "zcc_ret"
                 /\ name' = name
            ELSE /\ calls' = calls \o <<g, g>>
                 /\ name' = Some(CapsName(z))
                 /\ pc' = "zcc_lookup"
                 /\ UNCHANGED <<k, cap>>
    /\ UNCHANGED <<kc_chain, ncpusRet, result, last, stepRet, steps>>

ZccGetzoneid ==
    /\ pc = "zcc_zoneid"
    /\ \E z \in ZoneIds \cup {-1} :
         IF z = -1
         THEN /\ calls' = calls \o <<Call("getzoneid", 0, 0, -1, None)>> \o drop(k)
              /\ k' = NoWrapper
              /\ cap' = Some(Err(KstatError_Zoneid))
              /\ pc' = "zcc_ret"
              /\ name' = name
         ELSE /\ calls' = Append(calls, Call("getzoneid", 0, 0, z, None))
              /\ name' = Some(CapsName(z))
              /\ pc' = "zcc_lookup"
              /\ UNCHANGED <<k, cap>>
    /\ UNCHANGED <<kc_chain, ncpusRet, result, last, stepRet, steps>>

ZccLookup ==
    /\ pc = "zcc_lookup"
    /\ k' = lookup(k, kc_chain, Some(MODULE_CAPS), name)
    /\ calls' = Append(calls, Call("kstat_lookup", k.kc, 0,
                                   IF k'.ks = None THEN 0 ELSE k'.ks[1], None))
    /\ pc' = "zcc_step"
    /\ UNCHANGED <<kc_chain, name, cap, ncpusRet, result, last, stepRet>>
    /\ steps' = 0

(* zone_cpu_cap() whose wrapper outlives the call when the walk is exhausted *)
ZccStep_KeepsHandle ==
    /\ pc = "zcc_step"
    /\ steps < MaxSteps
    /\ LET s == step(k, kc_chain)
       IN IF s.ret
          THEN /\ k' = s.self
               /\ pc' = "zcc_filter"
               /\ UNCHANGED <<cap, calls>>
          ELSE /\ cap' = Some(Ok(None))
               /\ calls' = calls
               /\ k' = NoWrapper
               /\ pc' = "zcc_ret"
    /\ UNCHANGED <<kc_chain, name, ncpusRet, result, last, stepRet>>
    /\ steps' = steps + 1

ZccStep ==
    /\ pc = "zcc_step"
    /\ steps < MaxSteps
    /\ LET s == step(k, kc_chain)
       IN IF s.ret
          THEN /\ k' = s.self
               /\ pc' = "zcc_filter"
               /\ UNCHANGED <<cap, calls>>
          ELSE /\ cap' = Some(Ok(None))
               /\ calls' = calls \o drop(s.self)
               /\ k' = NoWrapper
               /\ pc' = "zcc_ret"
    /\ UNCHANGED <<kc_chain, name, ncpusRet, result, last, stepRet>>
    /\ steps' = steps + 1

ZccFilter ==
    /\ pc = "zcc_filter"
    /\ LET m == module(k, kc_chain)
           n == name_(k, kc_chain)
       IN IF m.panic \/ (m.text = MODULE_CAPS /\ n.panic)
          THEN /\ pc' = "panic"
               /\ calls' = calls \o drop(k)
               /\ k' = NoWrapper
          ELSE /\ pc' = IF m.text # MODULE_CAPS \/ n.text # name[1]
                        THEN "zcc_step" ELSE "zcc_data"
               /\ UNCHANGED <<k, calls>>
    /\ UNCHANGED <<kc_chain, name, cap, ncpusRet, result, last, stepRet, steps>>

(* zone_cpu_cap() that lets the wrapper go before it reads the record *)
ZccData_CloseFirst ==
    /\ pc = "zcc_data"
    /\ \E rd \in ReadOutcomes :
         LET r == data_ulong(k, rd, STAT_VALUE)
         IN IF r.ret # None
            THEN /\ cap' = Some(Ok(r.ret))
                 /\ calls' = calls \o drop(k) \o r.calls
                 /\ k' = NoWrapper
                 /\ pc' = "zcc_ret"
            ELSE /\ calls' = calls \o r.calls
                 /\ pc' = "zcc_step"
                 /\ UNCHANGED <<k, cap>>
    /\ last' = [op |-> "data", kc |-> k.kc, ks |-> k.ks]
    /\ UNCHANGED <<kc_chain, name, ncpusRet, result, stepRet, steps>>

ZccData ==
    /\ pc = "zcc_data"
    /\ \E rd \in ReadOutcomes :
         LET r == data_ulong(k, rd, STAT_VALUE)
         IN IF r.ret # None
            THEN /\ cap' = Some(Ok(r.ret))
                 /\ calls' = calls \o r.calls \o drop(k)
                 /\ k' = NoWrapper
                 /\ pc' = "zcc_ret"
            ELSE /\ calls' = calls \o r.calls
                 /\ pc' = "zcc_step"
                 /\ UNCHANGED <<k, cap>>
    /\ last' = [op |-> "data", kc |-> k.kc, ks |-> k.ks]
    /\ UNCHANGED <<kc_chain, name, ncpusRet, result, stepRet, steps>>

----------------------------------------------------------------------------
(* ncpus(), entered from zone_cpus() *)

NcpusOpen ==
    /\ pc = "n_open"
    /\ \E h \in {0, NextHandle} :
         /\ calls' = Append(calls, Call("kstat_open", 0, 0, h, None))
         /\ IF h = 0
            THEN /\ ncpusRet' = Some(Err(KstatError_Open))
                 /\ pc' = "n_ret"
                 /\ k' = k
            ELSE /\ k' = open(h)
                 /\ pc' = "n_lookup"
                 /\ ncpusRet' = ncpusRet
    /\ UNCHANGED <<kc_chain, name, cap, result, last, stepRet, steps>>

NcpusLookup ==
    /\ pc = "n_lookup"
    /\ k' = lookup(k, kc_chain, Some(MODULE_UNIX), Some(NAME_SYSTEM_MISC))
    /\ calls' = Append(calls, Call("kstat_lookup", k.kc, 0,
                                   IF k'.ks = None THEN 0 ELSE k'.ks[1], None))
    /\ pc' = "n_step"
    /\ UNCHANGED <<kc_chain, name, cap, ncpusRet, result, last, stepRet>>
    /\ steps' = 0

NcpusStep ==
    /\ pc = "n_step"
    /\ steps < MaxSteps
    /\ LET s == step(k, kc_chain)
       IN IF s.ret
          THEN /\ k' = s.self
               /\ pc' = "n_filter"
               /\ UNCHANGED <<ncpusRet, calls>>
          ELSE /\ ncpusRet' = Some(Err(KstatError_Error))
               /\ calls' = calls \o drop(s.self)
               /\ k' = NoWrapper
               /\ pc' = "n_ret"
    /\ UNCHANGED <<kc_chain, name, cap, result, last, stepRet>>
    /\ steps' = steps + 1

(* ncpus() that skips a record only when module and name both differ *)
NcpusFilter_And ==
    /\ pc = "n_filter"
    /\ LET m == module(k, kc_chain)
           n == name_(k, kc_chain)
       IN IF m.panic \/ n.panic
          THEN /\ pc' = "panic"
               /\ calls' = calls \o drop(k)
               /\ k' = NoWrapper
          ELSE /\ pc' = IF m.text # MODULE_UNIX /\ n.text # NAME_SYSTEM_MISC
                        THEN "n_step" ELSE "n_data"
               /\ UNCHANGED <<k, calls>>
    /\ UNCHANGED <<kc_chain, name, cap, ncpusRet, result, last, stepRet, steps>>

NcpusFilter ==
    /\ pc = "n_filter"
    /\ LET m == module(k, kc_chain)
           n == name_(k, kc_chain)
       IN IF m.panic \/ (m.text = MODULE_UNIX /\ n.panic)
          THEN /\ pc' = "panic"
               /\ calls' = calls \o drop(k)
               /\ k' = NoWrapper
          ELSE /\ pc' = IF m.text # MODULE_UNIX \/ n.text # NAME_SYSTEM_MISC
                        THEN "n_step" ELSE "n_data"
               /\ UNCHANGED <<k, calls>>
    /\ UNCHANGED <<kc_chain, name, cap, ncpusRet, result, last, stepRet, steps>>

NcpusData ==
    /\ pc = "n_data"
    /\ \E rd \in ReadOutcomes :
         LET r == data_u32(k, rd, STAT_NCPUS)
         IN IF r.ret # None
            THEN /\ ncpusRet' = Some(Ok(AsUsize(r.ret[1])))
                 /\ calls' = calls \o r.calls \o drop(k)
                 /\ k' = NoWrapper
                 /\ pc' = "n_ret"
            ELSE /\ calls' = calls \o r.calls
                 /\ pc' = "n_step"
                 /\ UNCHANGED <<k, ncpusRet>>
    /\ last' = [op |-> "data", kc |-> k.kc, ks |-> k.ks]
    /\ UNCHANGED <<kc_chain, name, cap, result, stepRet, steps>>

----------------------------------------------------------------------------
(* zone_cpus() *)

(* zone_cpus() that takes any failure of zone_cpu_cap() for "no cap" *)
ZoneCpusCap_FallsBack ==
    /\ pc = "zcc_ret"
    /\ LET r == cap[1]
       IN IF r.ok /\ r.val[1] # None
          THEN /\ result' = Some(Ok(Div100(r.val[1][1])))
               /\ pc' = "done"
          ELSE /\ result' = result
               /\ pc' = "n_open"
    /\ UNCHANGED <<kc_chain, k, name, cap, ncpusRet, calls, last, stepRet, steps>>

(* if let Some(cap) = kstat::zone_cpu_cap()? { return Ok((cap / 100) as usize); } *)
ZoneCpusCap ==
    /\ pc = "zcc_ret"
    /\ LET r == cap[1]
       IN IF ~r.ok
          THEN /\ result' = Some(Err(From(r.err[1])))
               /\ pc' = "done"
          ELSE IF r.val[1] # None
               THEN /\ result' = Some(Ok(Div100(r.val[1][1])))
                    /\ pc' = "done"
               ELSE /\ result' = result
                    /\ pc' = "n_open"
    /\ UNCHANGED <<kc_chain, k, name, cap, ncpusRet, calls, last, stepRet, steps>>

(* kstat::ncpus().or(Ok(1)): a default count in place of the error *)
ZoneCpusFallback_Default ==
    /\ pc = "n_ret"
    /\ LET r == ncpusRet[1]
       IN result' = Some(IF r.ok THEN r ELSE [ok |-> TRUE, val |-> Some(1), err |-> None])
    /\ pc' = "done"
    /\ UNCHANGED <<kc_chain, k, name, cap, ncpusRet, calls, last, stepRet, steps>>

(* kstat::ncpus().map_err(ZoneInfoError::from) *)
ZoneCpusFallback ==
    /\ pc = "n_ret"
    /\ LET r == ncpusRet[1]
       IN result' = Some(IF r.ok THEN r ELSE Err(From(r.err[1])))
    /\ pc' = "done"
    /\ UNCHANGED <<kc_chain, k, name, cap, ncpusRet, calls, last, stepRet, steps>>

Next ==
    \/ ZccOpen
    \/ ZccGetzoneid
    \/ ZccLookup
    \/ ZccStep
    \/ ZccFilter
    \/ ZccData
    \/ ZoneCpusCap
    \/ NcpusOpen
    \/ NcpusLookup
    \/ NcpusStep
    \/ NcpusFilter
    \/ NcpusData
    \/ ZoneCpusFallback

Spec == Init /\ [][Next]_vars

(* zone_cpus() is sequential code that keeps running until it returns *)
FairSpec == Spec /\ WF_vars(Next)

----------------------------------------------------------------------------
(* CursorSpec: one opened KstatWrapper driven by any caller. *)

OptModules == {None} \cup {Some(m) : m \in KsModules}
OptNames == {None} \cup {Some(n) : n \in KsNames \cup {"cpucaps_zone_1"}}

InitCursor ==
    /\ kc_chain \in Chains
    /\ k = open(1)
    /\ pc = "cursor"
    /\ name = None
    /\ cap = None
    /\ ncpusRet = None
    /\ result = None
    /\ calls = <<>>
    /\ last = [op |-> "open"]
    /\ stepRet = "none"
    /\ steps = 0

CLookup ==
    /\ pc = "cursor"
    /\ \E m \in OptModules, n \in OptNames :
         /\ k' = lookup(k, kc_chain, m, n)
         /\ last' = [op |-> "lookup", found |-> k'.ks # None, stepping |-> k.stepping]
    /\ stepRet' = "none"
    /\ UNCHANGED <<kc_chain, pc, name, cap, ncpusRet, result, calls, steps>>

CStep ==
    /\ pc = "cursor"
    /\ LET s == step(k, kc_chain)
       IN /\ k' = s.self
          /\ last' = [op |-> "step", ret |-> s.ret, prev |-> stepRet, from |-> k.ks,
                       mid |-> (last.op = "lookup" /\ last.stepping)]
          /\ stepRet' = IF s.ret THEN "true" ELSE "false"
    /\ UNCHANGED <<kc_chain, pc, name, cap, ncpusRet, result, calls, steps>>

(* A panic ends the caller: nothing runs on this wrapper afterwards. *)
CModule ==
    /\ pc = "cursor"
    /\ LET r == module(k, kc_chain)
       IN /\ last' = [op |-> "module", out |-> r]
          /\ pc' = IF r.panic THEN "panic" ELSE pc
    /\ UNCHANGED <<kc_chain, k, name, cap, ncpusRet, result, calls, stepRet, steps>>

CName ==
    /\ pc = "cursor"
    /\ LET r == name_(k, kc_chain)
       IN /\ last' = [op |-> "name", out |-> r]
          /\ pc' = IF r.panic THEN "panic" ELSE pc
    /\ UNCHANGED <<kc_chain, k, name, cap, ncpusRet, result, calls, stepRet, steps>>

NextCursor ==
    \/ CLookup
    \/ CStep
    \/ CModule
    \/ CName

CursorSpec == InitCursor /\ [][NextCursor]_vars

----------------------------------------------------------------------------
(* AccessorSpec: data_u32 / data_ulong applied once to a wrapper in any     *)
(* state lookup() and step() can leave it in.                               *)

Cursors(chain) ==
    {open(1)}
    \cup {lookup(open(1), chain, m, n) : m \in OptModules, n \in OptNames}
    \cup {[kc |-> 1, ks |-> Some(i), stepping |-> TRUE] : i \in 1..Len(chain)}

InitAccessor ==
    /\ kc_chain \in Chains
    /\ k \in Cursors(kc_chain)
    /\ pc = "accessor"
    /\ name = None
    /\ cap = None
    /\ ncpusRet = None
    /\ result = None
    /\ calls = <<>>
    /\ last = [op |-> "none"]
    /\ stepRet = "none"
    /\ steps = 0

ADataU32 ==
    /\ pc = "accessor"
    /\ \E rd \in ReadOutcomes, st \in {STAT_VALUE, STAT_NCPUS} :
         LET r == data_u32(k, rd, st)
         IN /\ last' = [op |-> "data_u32", statistic |-> st, rd |-> rd, ret |-> r.ret]
            /\ calls' = r.calls
    /\ pc' = "accessed"
    /\ UNCHANGED <<kc_chain, k, name, cap, ncpusRet, result, stepRet, steps>>

ADataUlong ==
    /\ pc = "accessor"
    /\ \E rd \in ReadOutcomes, st \in {STAT_VALUE, STAT_NCPUS} :
         LET r == data_ulong(k, rd, st)
         IN /\ last' = [op |-> "data_ulong", statistic |-> st, rd |-> rd, ret |-> r.ret]
            /\ calls' = r.calls
    /\ pc' = "accessed"
    /\ UNCHANGED <<kc_chain, k, name, cap, ncpusRet, result, stepRet, steps>>

NextAccessor ==
    \/ ADataU32
    \/ ADataUlong

AccessorSpec == InitAccessor /\ [][NextAccessor]_vars

----------------------------------------------------------------------------
(* Reading the call log *)

CallIdx(fn) == {i \in 1..Len(calls) : calls[i].fn = fn}
OpensOk == {i \in CallIdx("kstat_open") : calls[i].ret # 0}
OpensFailed == {i \in CallIdx("kstat_open") : calls[i].ret = 0}
ClosesOf(h) == {i \in CallIdx("kstat_close") : calls[i].kc = h}
Handles == {calls[i].ret : i \in OpensOk}

CapReturned == cap # None
CapPresent == cap # None /\ cap[1].ok /\ cap[1].val[1] # None
CapAbsent == cap # None /\ cap[1].ok /\ cap[1].val[1] = None
CapValue == cap[1].val[1][1]
Returned == pc = "done" /\ result # None

----------------------------------------------------------------------------
(* C1: whenever zone_cpu_cap() returned a cap c, zone_cpus() returns       *)
(* Ok(c / 100), the quotient truncated (350 -> 3, 99 -> 0, 100 -> 1,       *)
(* 450 -> 4), and ncpus() is never entered: it returned nothing and the    *)
(* only kstat_open of the run is zone_cpu_cap's.                           *)
C1_CapDividedBy100 ==
    (pc = "done" /\ CapPresent) =>
        /\ result # None /\ result[1].ok
        /\ LET q == result[1].val[1]
               c == CapValue
           IN /\ c.hi = 0 => (q * 100 <= c.lo /\ c.lo < q * 100 + 100)
              /\ c = [lo |-> 8, hi |-> 1] => q = 42949673
              /\ c = U64(350) => q = 3
              /\ c = U64(99) => q = 0
              /\ c = U64(100) => q = 1
              /\ c = U64(450) => q = 4
        /\ ncpusRet = None
        /\ Cardinality(CallIdx("kstat_open")) = 1

C1_Witness ==
    /\ pc = "done"
    /\ cap = Some(Ok(Some(U64(350))))
    /\ result = Some(Ok(3))

(* C2: whenever zone_cpu_cap() returned "no cap", zone_cpus() returns what *)
(* the one ncpus() call it made returned: the same count, or the same      *)
(* error wrapped by From, and never a number when ncpus() failed.          *)
C2_FallbackIsRawCount ==
    (pc = "done" /\ CapAbsent) =>
        /\ ncpusRet # None /\ result # None
        /\ Cardinality(CallIdx("kstat_open")) = 2
        /\ ncpusRet[1].ok => result[1] = Ok(ncpusRet[1].val[1])
        /\ ~ncpusRet[1].ok =>
              /\ ~result[1].ok
              /\ result[1].val = None
              /\ result[1].err = Some(<<"Kstat">> \o ncpusRet[1].err[1])

C2_Witness ==
    /\ pc = "done"
    /\ CapAbsent
    /\ ncpusRet = Some(Err(KstatError_Error))
    /\ result = Some(Err(<<"Kstat", "Error", "cpu count kstat not found">>))

(* C3, as claimed: every successful result of zone_cpus() is at least 1.   *)
C3_ResultPositive ==
    (Returned /\ result[1].ok) => result[1].val[1] >= 1

(* C3, amended: every successful result is a non-negative integer; on the  *)
(* cap path it is 0 exactly when the cap is below 100, on the fallback     *)
(* path it is 0 exactly when the ncpus value read is 0.                    *)
C3_ResultNonNegative ==
    (Returned /\ result[1].ok) =>
        LET q == result[1].val[1]
        IN /\ q >= 0
           /\ CapPresent => (q = 0 <=> (CapValue.hi = 0 /\ CapValue.lo < 100))
           /\ CapAbsent =>
                \E i \in CallIdx("kstat_data_lookup") :
                    /\ calls[i].kc = 2 /\ calls[i].ret = 1
                    /\ (q = 0 <=> calls[i].nv[1].value.lo = 0)

C3_Witness ==
    /\ Returned
    /\ cap = Some(Ok(Some(U64(99))))
    /\ result = Some(Ok(0))

(* C4: a failed kstat_open is the last call of an external primitive of    *)
(* the run (no getzoneid, lookup, read, data_lookup or close follows it),  *)
(* no wrapper exists after it, and the function and then zone_cpus()       *)
(* return the Open error.                                                  *)
C4_OpenFailureStops ==
    \A i \in OpensFailed :
        /\ i = Len(calls)
        /\ k = NoWrapper
        /\ pc \in {"zcc_ret", "n_ret", "done"}
        /\ i = 1 => cap = Some(Err(<<"Open">>))
        /\ i > 1 => ncpusRet = Some(Err(<<"Open">>))
        /\ pc = "done" => result = Some(Err(<<"Kstat", "Open">>))

C4_Witness ==
    /\ pc = "done"
    /\ Len(calls) = 1
    /\ calls[1].fn = "kstat_open" /\ calls[1].ret = 0
    /\ result = Some(Err(<<"Kstat", "Open">>))

(* C5: every opened handle is closed at most once and only while it is     *)
(* the live wrapper's; after its close no call is made on it; and whenever *)
(* zone_cpu_cap(), ncpus() or zone_cpus() has returned, every handle       *)
(* opened so far has been closed exactly once, so closes = opens.          *)
C5_ClosedExactlyOnce ==
    /\ \A h \in Handles :
          /\ Cardinality(ClosesOf(h)) <= 1
          /\ (k.kc = h) <=> (ClosesOf(h) = {})
          /\ \A i \in ClosesOf(h) : \A j \in i + 1..Len(calls) : calls[j].kc # h
    /\ \A i \in CallIdx("kstat_close") : calls[i].kc \in Handles
    /\ k.kc # 0 => k.kc \in Handles
    /\ pc \in {"zcc_ret", "n_open", "n_ret", "done", "panic"} =>
          /\ k = NoWrapper
          /\ \A h \in Handles : Cardinality(ClosesOf(h)) = 1
          /\ Cardinality(CallIdx("kstat_close")) = Cardinality(OpensOk)

(* the error return of zone_cpu_cap() when getzoneid fails *)
C5_Witness ==
    /\ pc = "done"
    /\ cap = Some(Err(KstatError_Zoneid))
    /\ Cardinality(OpensOk) = 1
    /\ Cardinality(ClosesOf(1)) = 1

----------------------------------------------------------------------------
(* Reading one handle's walk off the call log *)

LookupsOn(h) == {j \in CallIdx("kstat_lookup") : calls[j].kc = h}
LookupPos(h) == calls[CHOOSE j \in LookupsOn(h) : TRUE].ret
WalkFrom(p0) == IF p0 = 0 THEN {} ELSE p0..Len(kc_chain)
Matching(mod, nm) ==
    {i \in 1..Len(kc_chain) : kc_chain[i].ks_module = mod /\ kc_chain[i].ks_name = nm}
Tried(h, i) ==
    \E j \in CallIdx("kstat_read") : calls[j].kc = h /\ calls[j].ks = i
FoundAt(h, i, stat) ==
    \E j \in CallIdx("kstat_data_lookup") :
        /\ calls[j].kc = h /\ calls[j].ks = i
        /\ calls[j].ret = 1 /\ calls[j].nv[1].name = stat
EntryAt(h, i) ==
    calls[CHOOSE j \in CallIdx("kstat_data_lookup") :
            calls[j].kc = h /\ calls[j].ks = i /\ calls[j].ret = 1].nv[1]

Digit(d) ==
    CASE d = 0 -> "0" [] d = 1 -> "1" [] d = 2 -> "2" [] d = 3 -> "3" [] d = 4 -> "4"
      [] d = 5 -> "5" [] d = 6 -> "6" [] d = 7 -> "7" [] d = 8 -> "8" [] d = 9 -> "9"

RECURSIVE Decimal(_)
Decimal(n) == IF n < 10 THEN Digit(n) ELSE Decimal(n \div 10) \o Digit(n % 10)

(* C9: once ncpus() has returned with its handle opened, the lookup had    *)
(* positioned it on the first record with module "unix" and name           *)
(* "system_misc" (on none iff there is none); it returns Ok(v), v the ui32 *)
(* of the "ncpus" entry of a record of the walk with exactly that module   *)
(* and name whose extraction succeeded, every such record before it having *)
(* been tried without success and none after it touched; and it returns    *)
(* the not-found error exactly when no record of the walk qualified, all   *)
(* matching records having been tried.                                     *)
C9_NcpusFirstSuccess ==
    (ncpusRet # None /\ 2 \in Handles) =>
        LET M == Matching("unix", "system_misc")
            p0 == LookupPos(2)
            W == WalkFrom(p0) \cap M
            S == {i \in W : FoundAt(2, i, "ncpus")}
        IN /\ Cardinality(LookupsOn(2)) = 1
           /\ p0 = 0 <=> M = {}
           /\ p0 # 0 => (p0 \in M /\ \A j \in M : p0 <= j)
           /\ ncpusRet[1].ok <=> S # {}
           /\ S = {} =>
                /\ ncpusRet = Some(Err(<<"Error", "cpu count kstat not found">>))
                /\ \A i \in W : Tried(2, i)
           /\ S # {} =>
                \E i \in S :
                    /\ ncpusRet = Some(Ok(EntryAt(2, i).value.lo))
                    /\ \A j \in W : j < i => (Tried(2, j) /\ ~FoundAt(2, j, "ncpus"))
                    /\ \A j \in 1..Len(kc_chain) : j > i => ~Tried(2, j)

(* the second matching record answers after the first yielded nothing *)
C9_Witness ==
    /\ ncpusRet = Some(Ok(8))
    /\ \E i, j \in Matching("unix", "system_misc") :
          i < j /\ Tried(2, i) /\ ~FoundAt(2, i, "ncpus") /\ FoundAt(2, j, "ncpus")

(* C10: once zone_cpu_cap() has returned with its handle opened and the    *)
(* zone id z resolved, it returns Ok(Some(v)), v the whole undivided ul of *)
(* the "value" entry of a record with module "caps" and name               *)
(* "cpucaps_zone_<z>", iff some such record carried the statistic when it  *)
(* was read; otherwise it returns Ok(None), never an error, every such     *)
(* record having been tried (refresh failed, or no "value" in it).         *)
C10_CapRawValue ==
    (cap # None /\ 1 \in Handles /\ \E g \in CallIdx("getzoneid") : calls[g].ret >= 0) =>
        LET z == calls[CHOOSE g \in CallIdx("getzoneid") : TRUE].ret
            M == Matching("caps", "cpucaps_zone_" \o Decimal(z))
            p0 == LookupPos(1)
            W == WalkFrom(p0) \cap M
            S == {i \in W : FoundAt(1, i, "value")}
        IN /\ Cardinality(CallIdx("getzoneid")) = 1
           /\ Cardinality(LookupsOn(1)) = 1
           /\ W = M
           /\ cap[1].ok
           /\ CapPresent <=> S # {}
           /\ S = {} => (cap = Some(Ok(None)) /\ \A i \in M : Tried(1, i))
           /\ S # {} =>
                \E i \in S :
                    /\ cap = Some(Ok(Some(EntryAt(1, i).value)))
                    /\ \A j \in M : j < i => (Tried(1, j) /\ ~FoundAt(1, j, "value"))

(* a matching record whose refresh failed, then one that carries the value *)
C10_Witness ==
    /\ cap = Some(Ok(Some(U64(450))))
    /\ \E i, j \in Matching("caps", "cpucaps_zone_0") :
          /\ i < j /\ FoundAt(1, j, "value")
          /\ \E r \in CallIdx("kstat_read") :
                calls[r].kc = 1 /\ calls[r].ks = i /\ calls[r].ret = -1

----------------------------------------------------------------------------
(* C6, as claimed: module() and name() fault whenever the most recent      *)
(* step() since open or the latest lookup did not return true (none made,  *)
(* or it returned false).                                                  *)
C6_FaultUnlessStepTrue ==
    (last.op \in {"module", "name"} /\ stepRet # "true") => last.out.panic

(* C7: a step() made when the previous step() returned false, no lookup    *)
(* in between, returns false again and leaves no current record, whatever  *)
(* the chain holds.                                                        *)
C7_ExhaustionSticky ==
    (last.op = "step" /\ last.prev = "false") =>
        /\ ~last.ret
        /\ k.ks = None
        /\ stepRet = "false"

C7_Witness ==
    /\ last.op = "step" /\ last.prev = "false" /\ ~last.ret
    /\ Len(kc_chain) > 0

(* C8: data_u32 and data_ulong return None, issuing at most the one        *)
(* kstat_read, when there is no current record (no call at all), the       *)
(* kstat_read fails (no kstat_data_lookup follows), the refreshed record   *)
(* is not of the named type, it holds zero values, or no entry of its      *)
(* payload carries the statistic's name.                                   *)
C8_AccessorAbsent ==
    last.op \in {"data_u32", "data_ulong"} =>
        LET rd == last.rd
            names == {rd.ks_data[i].name : i \in 1..Len(rd.ks_data)}
        IN /\ k.ks = None => (last.ret = None /\ calls = <<>>)
           /\ k.ks # None =>
                /\ Len(calls) >= 1
                /\ calls[1].fn = "kstat_read" /\ calls[1].ks = k.ks[1]
                /\ \A i \in 2..Len(calls) : calls[i].fn = "kstat_data_lookup"
                /\ Len(calls) <= 2
                /\ rd.ret = -1 => (last.ret = None /\ Len(calls) = 1)
                /\ rd.ks_type # 1 => last.ret = None
                /\ rd.ks_ndata = 0 => last.ret = None
                /\ last.statistic \notin names => last.ret = None

C8_Witness ==
    /\ last.op = "data_ulong"
    /\ k.ks # None
    /\ last.rd.ret = -1
    /\ last.ret = None
    /\ Len(calls) = 1

----------------------------------------------------------------------------
(* C11, as claimed: every zone_cpu_cap() that has returned called          *)
(* getzoneid exactly once, whatever it returned.                           *)
C11_GetzoneidExactlyOnce ==
    cap # None => Cardinality(CallIdx("getzoneid")) = 1

(* C11, amended: getzoneid is never called more than once; a               *)
(* zone_cpu_cap() that has returned called it exactly once when its        *)
(* kstat_open succeeded (cap found, no cap, Zoneid error) and not at all   *)
(* when it returned the Open error; the call follows the open and          *)
(* precedes the lookup.                                                    *)
C11_GetzoneidOnceAfterOpen ==
    /\ Cardinality(CallIdx("getzoneid")) <= 1
    /\ \A g \in CallIdx("getzoneid") :
          /\ g = 2 /\ calls[1].fn = "kstat_open" /\ calls[1].ret # 0
          /\ \A j \in CallIdx("kstat_lookup") : g < j
    /\ cap # None =>
          /\ 1 \in Handles => Cardinality(CallIdx("getzoneid")) = 1
          /\ 1 \notin Handles =>
                (cap = Some(Err(<<"Open">>)) /\ CallIdx("getzoneid") = {})
          /\ cap = Some(Err(<<"Zoneid">>)) =>
                \E g \in CallIdx("getzoneid") : calls[g].ret = -1

C11_Witness ==
    /\ pc = "done"
    /\ CapPresent
    /\ Cardinality(CallIdx("getzoneid")) = 1
    /\ Cardinality(CallIdx("kstat_read")) >= 2

(* C12: when zone_cpu_cap() returned an error e (Open or Zoneid),          *)
(* zone_cpus() returns that error, carried whole inside                    *)
(* ZoneInfoError::Kstat, and nothing else runs: ncpus() is not entered, no *)
(* second kstat_open, no lookup, read or data_lookup is ever issued; on    *)
(* the Zoneid error the calls of the run are exactly open, getzoneid,      *)
(* close of the opened handle.                                             *)
C12_CapErrorEndsRun ==
    (cap # None /\ ~cap[1].ok) =>
        LET e == cap[1].err[1]
        IN /\ e \in {<<"Open">>, <<"Zoneid">>}
           /\ pc \in {"zcc_ret", "done"}
           /\ pc = "done" => result = Some(Err(<<"Kstat">> \o e))
           /\ ncpusRet = None
           /\ k = NoWrapper
           /\ Cardinality(CallIdx("kstat_open")) = 1
           /\ CallIdx("kstat_lookup") = {}
           /\ CallIdx("kstat_read") = {}
           /\ CallIdx("kstat_data_lookup") = {}
           /\ e = <<"Open">> => Len(calls) = 1
           /\ e = <<"Zoneid">> =>
                /\ Len(calls) = 3
                /\ calls[1].fn = "kstat_open" /\ calls[1].ret = 1
                /\ calls[2].fn = "getzoneid" /\ calls[2].ret = -1
                /\ calls[3].fn = "kstat_close" /\ calls[3].kc = 1

C12_Witness ==
    /\ pc = "done"
    /\ cap = Some(Err(<<"Zoneid">>))
    /\ result = Some(Err(<<"Kstat", "Zoneid">>))
    /\ Len(calls) = 3

----------------------------------------------------------------------------
(* C13: a lookup leaves the stepping flag false, also when issued in the   *)
(* middle of an iteration; the first step() after open or a lookup keeps   *)
(* the record the lookup stored as the current one and returns true iff    *)
(* there is one; every later step() moves from the current record to its   *)
(* successor in the chain and returns true, or, at the last record, leaves *)
(* no current record and returns false.                                    *)
C13_FirstStepStays ==
    /\ last.op = "lookup" => (~k.stepping /\ (last.found <=> k.ks # None))
    /\ last.op = "step" =>
          /\ last.prev = "none" =>
                (k.ks = last.from /\ (last.ret <=> last.from # None))
          /\ last.prev = "true" =>
                /\ last.from # None
                /\ last.from[1] < Len(kc_chain) =>
                      (k.ks = <<last.from[1] + 1>> /\ last.ret)
                /\ last.from[1] >= Len(kc_chain) => (k.ks = None /\ ~last.ret)

(* a lookup issued while stepping, then the step that lands on its record *)
C13_Witness ==
    /\ last.op = "step" /\ last.mid /\ last.prev = "none"
    /\ last.ret
    /\ k.ks = last.from
    /\ k.ks[1] > 1

----------------------------------------------------------------------------
RecordCalls == CallIdx("kstat_read") \cup CallIdx("kstat_data_lookup")

(* C14: wherever the program is about to compare a record's module or name *)
(* or to read its data, the wrapper is alive, its handle is opened and not *)
(* closed, and it has a current record inside the walk; every kstat_read   *)
(* and kstat_data_lookup in the log was made on a handle after its open    *)
(* and its lookup and before its close, on a record of the walk that the   *)
(* cursor has not stepped past since (later calls on the handle target the *)
(* same or a later record, and the live cursor is at or after it); a       *)
(* kstat_data_lookup follows the successful kstat_read of the same record; *)
(* a record about to be read has not been read on this handle before; and  *)
(* the calls of the latest accessor call target the record that was the    *)
(* cursor's current one when the accessor was called.                      *)
C14_NoStaleRecordUse ==
    /\ pc \in {"zcc_filter", "zcc_data", "n_filter", "n_data"} =>
          /\ k.kc \in Handles
          /\ ClosesOf(k.kc) = {}
          /\ k.ks # None
          /\ k.ks[1] \in WalkFrom(LookupPos(k.kc))
    /\ \A j \in RecordCalls :
          LET h == calls[j].kc
              i == calls[j].ks
          IN /\ \E o \in OpensOk : o < j /\ calls[o].ret = h
             /\ \A c \in ClosesOf(h) : j < c
             /\ \E l \in LookupsOn(h) : l < j /\ i \in WalkFrom(calls[l].ret)
             /\ k.kc = h => (k.ks # None /\ i <= k.ks[1])
             /\ \A j2 \in RecordCalls :
                   (j2 > j /\ calls[j2].kc = h) => calls[j2].ks >= i
             /\ calls[j].fn = "kstat_data_lookup" =>
                   /\ calls[j - 1].fn = "kstat_read"
                   /\ calls[j - 1].kc = h /\ calls[j - 1].ks = i
                   /\ calls[j - 1].ret # -1
    /\ pc \in {"zcc_data", "n_data"} =>
          \A j \in RecordCalls : calls[j].kc = k.kc => calls[j].ks < k.ks[1]
    /\ last.op = "data" =>
          /\ CallIdx("kstat_read") # {}
          /\ LET j == CHOOSE x \in CallIdx("kstat_read") :
                        \A y \in CallIdx("kstat_read") : y <= x
             IN /\ calls[j].kc = last.kc /\ <<calls[j].ks>> = last.ks
                /\ \A j2 \in RecordCalls :
                      j2 > j => (calls[j2].kc = last.kc /\ <<calls[j2].ks>> = last.ks)

(* the cursor has moved on from a record it read and is about to read again *)
C14_Witness ==
    /\ pc = "n_data"
    /\ k.kc = 2
    /\ \E j \in CallIdx("kstat_data_lookup") :
          calls[j].kc = 2 /\ calls[j].ks < k.ks[1]

----------------------------------------------------------------------------
(* the handles open after the first n calls *)
OpenAfter(n) ==
    {calls[i].ret : i \in {o \in OpensOk : o <= n}}
    \ {calls[i].kc : i \in {c \in CallIdx("kstat_close") : c <= n}}

(* C15: after every call of the run at most one handle is open; a          *)
(* kstat_open is only issued while none is, so zone_cpu_cap's handle is    *)
(* closed before ncpus() opens its own; the run issues at most two         *)
(* kstat_open; and none is open once zone_cpus() has returned.             *)
C15_OneHandleAtATime ==
    /\ \A n \in 0..Len(calls) : Cardinality(OpenAfter(n)) <= 1
    /\ \A o \in CallIdx("kstat_open") : OpenAfter(o - 1) = {}
    /\ Cardinality(CallIdx("kstat_open")) <= 2
    /\ OpenAfter(Len(calls)) = (IF k.kc = 0 THEN {} ELSE {k.kc})
    /\ pc = "done" => (OpenAfter(Len(calls)) = {} /\ k = NoWrapper)

(* the second handle is live, the first closed before its open *)
C15_Witness ==
    /\ pc = "n_data"
    /\ k.kc = 2
    /\ Cardinality(OpensOk) = 2
    /\ \E c \in ClosesOf(1) : \A o \in OpensOk : calls[o].ret = 2 => c < o

----------------------------------------------------------------------------
(* the entry an accessor call locates: the first entry of the refreshed    *)
(* payload carrying the statistic's name, when the cursor has a record,    *)
(* the refresh succeeded and the record is a non-empty named one           *)
Located ==
    IF last.op \notin {"data_u32", "data_ulong"} \/ k.ks = None THEN None
    ELSE LET rd == last.rd
             hit == IF rd.ret = -1 THEN {}
                    ELSE {i \in 1..Len(rd.ks_data) : rd.ks_data[i].name = last.statistic}
         IN IF rd.ret = -1 \/ rd.ks_type # KSTAT_TYPE_NAMED \/ hit = {} THEN None
            ELSE Some(rd.ks_data[CHOOSE i \in hit : \A j \in hit : i <= j])

(* C16, as stated: data_u32 returns a value only when the located entry is *)
(* tagged as a 32-bit unsigned integer, data_ulong only when it is tagged  *)
(* as an unsigned long; for any other tag they return None.                *)
C16_AccessorTagChecked ==
    /\ (last.op = "data_u32" /\ last.ret # None) =>
           (Located # None /\ Located[1].data_type = "ui32")
    /\ (last.op = "data_ulong" /\ last.ret # None) =>
           (Located # None /\ Located[1].data_type = "ul")

(* C16, amended: the accessors never consult the entry's tag.  Whenever    *)
(* an entry is located, whatever its tag, data_u32 returns its ui32 member *)
(* widened to 64 bits and data_ulong returns its ul member; they return    *)
(* None exactly when no entry is located.                                  *)
C16_AccessorIgnoresTag ==
    last.op \in {"data_u32", "data_ulong"} =>
        /\ last.ret = None <=> Located = None
        /\ Located # None =>
             /\ last.op = "data_u32" =>
                    last.ret = Some([lo |-> Located[1].value.lo, hi |-> 0])
             /\ last.op = "data_ulong" => last.ret = Some(Located[1].value)

(* data_u32 answers for an entry tagged unsigned long, dropping its high half *)
C16_Witness ==
    /\ last.op = "data_u32"
    /\ Located # None
    /\ Located[1].data_type = "ul"
    /\ Located[1].value.hi = 1
    /\ last.ret = Some([lo |-> Located[1].value.lo, hi |-> 0])

----------------------------------------------------------------------------
(* the record name zone_cpu_cap() looks for, from the zone id it was given *)
ZoneKey ==
    "cpucaps_zone_" \o Decimal(calls[CHOOSE j \in CallIdx("getzoneid") : TRUE].ret)

(* the records whose module and name both equal the keys of handle h's walk *)
KeyRecords(h) ==
    IF h = 1 THEN Matching(MODULE_CAPS, ZoneKey)
    ELSE Matching(MODULE_UNIX, NAME_SYSTEM_MISC)

(* C17: every kstat_read and kstat_data_lookup of zone_cpu_cap() (handle   *)
(* 1) and of ncpus() (handle 2) targets a record whose module and name     *)
(* both equal the lookup keys; each record gets at most one kstat_read and *)
(* at most one kstat_data_lookup per call; and nothing more is issued on a *)
(* record whose kstat_read failed.  Records of the walk that differ in     *)
(* module or name are therefore passed without any call on them.           *)
C17_OnlyKeyRecordsOnce ==
    /\ \A j \in RecordCalls :
         /\ calls[j].kc \in {1, 2}
         /\ calls[j].kc = 1 => CallIdx("getzoneid") # {}
         /\ calls[j].ks \in KeyRecords(calls[j].kc)
    /\ \A i, j \in RecordCalls :
         (/\ i # j
          /\ calls[i].fn = calls[j].fn
          /\ calls[i].kc = calls[j].kc) => calls[i].ks # calls[j].ks
    /\ \A i \in CallIdx("kstat_read") :
         calls[i].ret = -1 =>
             \A j \in RecordCalls :
                 (j # i /\ calls[j].kc = calls[i].kc) => calls[j].ks # calls[i].ks

(* ncpus() met a key record whose refresh failed, passed a record of       *)
(* another name untouched and went on to the next key record               *)
C17_Witness ==
    /\ pc = "done"
    /\ \E i \in CallIdx("kstat_read") :
         /\ calls[i].kc = 2 /\ calls[i].ret = -1
         /\ calls[i].ks + 1 \in 1..Len(kc_chain)
         /\ calls[i].ks + 1 \notin KeyRecords(2)
         /\ kc_chain[calls[i].ks + 1].ks_module = MODULE_UNIX
         /\ \A j \in RecordCalls : calls[j].kc = 2 => calls[j].ks # calls[i].ks + 1
         /\ \E j \in CallIdx("kstat_read") :
              j > i /\ calls[j].kc = 2 /\ calls[j].ks = calls[i].ks + 2

----------------------------------------------------------------------------
(* the records from the position of the latest lookup to the chain end *)
RecordsAhead ==
    IF CallIdx("kstat_lookup") = {} THEN 0
    ELSE LET j == CHOOSE x \in CallIdx("kstat_lookup") :
                      \A y \in CallIdx("kstat_lookup") : y <= x
         IN Cardinality(WalkFrom(calls[j].ret))

(* a walk makes at most RecordsAhead + 1 step() calls, and the last of     *)
(* that many is the one that returned false                                *)
WalkBound ==
    /\ steps <= RecordsAhead + 1
    /\ pc \in {"zcc_step", "zcc_filter", "zcc_data",
               "n_step", "n_filter", "n_data"} => steps <= RecordsAhead

(* C18: on every finite chain zone_cpus() returns, and with it             *)
(* zone_cpu_cap() and ncpus(); each walk makes at most (records from the   *)
(* lookup position to the chain end) + 1 step() calls.                     *)
C18_WalksTerminate ==
    /\ []WalkBound
    /\ <>(pc = "done")
    /\ [](pc \in {"n_open", "done"} => cap # None)
    /\ [](pc = "done" => (result # None /\ (ncpusRet = None => CapPresent \/ ~cap[1].ok)))

(* ncpus() walked a whole chain of three records and step() then failed *)
C18_Witness ==
    /\ pc = "done"
    /\ Len(kc_chain) = 3
    /\ RecordsAhead = 3
    /\ steps = 4
    /\ ncpusRet = Some(Err(KstatError_Error))

----------------------------------------------------------------------------
(* C19: after every completed open(), lookup() or step(), in any order and *)
(* number, a set stepping flag implies a current record (a cursor without  *)
(* a current record has the flag clear), and step() returns true exactly   *)
(* when it leaves a current record.                                        *)
C19_SteppingImpliesRecord ==
    /\ k.stepping => k.ks # None
    /\ k.ks = None => ~k.stepping
    /\ k.ks # None => k.ks[1] \in 1..Len(kc_chain)
    /\ last.op = "step" => (last.ret <=> k.ks # None)

(* a step() that ran off the chain, after one that had set the flag *)
C19_Witness ==
    /\ last.op = "step"
    /\ last.prev = "true"
    /\ last.from # None
    /\ ~last.ret
    /\ k.ks = None
    /\ ~k.stepping

============================================================================
